---- MODULE Spec2Model ----
(***************************************************************************)
(* Model of the timer-app queue runner: the module state of                *)
(* timer-model.js, the handlers of main.js and the timer callbacks of      *)
(* ui.js (createTimerBlock, the delete button, startTimerAnimation).       *)
(* Every action is one handler or one callback, run to completion: the     *)
(* page is single threaded, so handlers interleave but never overlap.      *)
(***************************************************************************)
EXTENDS Integers, Sequences, FiniteSets, TLC

(* ---------------- bounds of the model ---------------- *)
\* number of timer blocks ever created (each click on an add button makes a
\* fresh block, the identity of the spec)
MaxTimers == 3
\* number of clock steps the wall clock is allowed to advance
MaxClockSteps == 2

\* formatDuration is tried on every half second up to this many
MaxHalfSeconds == 250

(* ---------------- program constants ---------------- *)
\* minutes * 60000 in handleAddCustomTimer; the "1 Min Breath" preset
MsPerMinute == 60000
\* state.runningTimer: null, state.runningTimerStart: null. A null start
\* time converts to the number 0 in "endedAt - startedAt".
Null == 0

\* the wall clock is observed in steps of one minute, starting at a
\* positive reading
ClockStep == MsPerMinute
FirstNow == 2 * ClockStep
LastNow == FirstNow + MaxClockSteps * ClockStep
\* the smaller world in which the sound and notification settings vary
AlertTimers == MaxTimers - 1
AlertLastNow == LastNow - ClockStep

\* the specs a user can add: the one minute preset and a custom timer of
\* two minutes with the default label
OneMinBreath == [duration |-> MsPerMinute, label |-> "1 Min Breath"]
CustomTimer == [duration |-> 2 * MsPerMinute, label |-> "Custom Timer"]
TimerSpecs == {OneMinBreath, CustomTimer}

Blocks == 1..MaxTimers

VARIABLES
  timerQueue,         \* state.timerQueue: sequence of blocks waiting to run
  runLog,             \* state.runLog: sequence of log entries
  isRunning,          \* state.isRunning
  runningTimer,       \* state.runningTimer: Null or the block of the handle
  runningTimerStart,  \* state.runningTimerStart: Null or a clock reading
  timers,             \* block -> [duration, label] of the blocks created
  nextBlock,          \* the next fresh block identity
  inDOM,              \* blocks attached to the queue bar or the timer window
  intervals,          \* blocks whose setInterval countdown is still live
  startTime,          \* block -> startTime of its startTimerAnimation closure
  exitPending,        \* blocks whose exit animation callback is pending
  now,                \* the wall clock
  signal,             \* the message shown by the last handler, "" if none
  lastOp,             \* history: the handler or callback that ran last
  logMeta,            \* history: for each runLog entry, its block and cause
  discarded,          \* history: handles present when handleClearAll ran
                      \* whose countdown is still live
  aborted,            \* history: exit animations in flight at handleClearAll
  soundLevel,         \* state.soundLevel
  notificationsEnabled, \* state.notificationsEnabled
  localStorage,       \* the stored 'timerSoundLevel', Absent if there is none
  effects,            \* the sound and notification calls of the last handler
  exported,           \* the export produced by the last handler, if any
  call                \* the last direct call of a function: name, input, result

vars == <<timerQueue, runLog, isRunning, runningTimer, runningTimerStart,
          timers, nextBlock, inDOM, intervals, startTime, exitPending, now,
          signal, lastOp, logMeta, discarded, aborted, soundLevel,
          notificationsEnabled, localStorage, effects, exported, call>>

Range(s) == {s[i] : i \in DOMAIN s}

\* the keys of SOUND_LEVELS
SoundLevels == {"off", "soft", "medium", "loud"}
\* the values the sound selector is given: two levels and an unknown one
LevelChoices == {"off", "loud", "bogus"}
\* the audio system: working, no AudioContext, or a node call that throws
AudioStates == {"ok", "noContext", "nodeError"}
\* the Notification API: permission granted, denied, missing, or a
\* constructor that throws
NotificationStates == {"granted", "denied", "unsupported", "constructorThrows"}

Absent == "absent"
NotCalled == "not called"
Threw == "threw"

\* the values setSoundLevel is given and the store can hold when the
\* store is taken into account: every level, an unknown one, the empty string
PrefInputs == SoundLevels \cup {"bogus", ""}
StoredValues == PrefInputs \cup {Absent}

\* what a handler called: playSound(level) with its outcome, and
\* showTimerCompletionNotification(label) with its outcome
Effects(level, sound, label, notification) ==
  [level |-> level, sound |-> sound, label |-> label,
   notification |-> notification]
NoEffects == Effects(NotCalled, NotCalled, NotCalled, NotCalled)
NoExport == [status |-> NotCalled, records |-> <<>>]
Call(op, input, result) == [op |-> op, input |-> input, result |-> result]
NoCall == Call(NotCalled, <<>>, <<>>)

\* handlers that neither play, notify, export nor touch the preferences
quiet ==
  /\ effects' = NoEffects
  /\ exported' = NoExport
  /\ call' = NoCall
  /\ UNCHANGED <<soundLevel, notificationsEnabled, localStorage>>

\* remaining time seen by the interval callback of a block
endTime(block) == startTime[block] + timers[block].duration

Init ==
  /\ timerQueue = <<>>
  /\ runLog = <<>>
  /\ isRunning = FALSE
  /\ runningTimer = Null
  /\ runningTimerStart = Null
  /\ timers = [b \in Blocks |-> OneMinBreath]
  /\ nextBlock = 1
  /\ inDOM = {}
  /\ intervals = {}
  /\ startTime = [b \in Blocks |-> Null]
  /\ exitPending = {}
  /\ now = FirstNow
  /\ signal = ""
  /\ lastOp = "init"
  /\ logMeta = <<>>
  /\ discarded = {}
  /\ aborted = {}
  /\ soundLevel = "off"
  /\ notificationsEnabled = FALSE
  /\ localStorage = Absent
  /\ effects = NoEffects
  /\ exported = NoExport
  /\ call = NoCall

(* ---------------- timer-model.js ---------------- *)

\* an enqueue that puts the timer at the front (unshift instead of push)
addTimerToQueue_unshift(queue, block) == <<block>> \o queue

addTimerToQueue(queue, block) == Append(queue, block)

\* a shift that returns the head without removing it
shiftTimerFromQueue_keepsHead(queue) == queue

\* Array.prototype.shift leaves an empty array as it is
shiftTimerFromQueue(queue) == IF Len(queue) = 0 THEN queue ELSE Tail(queue)

\* findIndex(t => t.block === block): the first index holding the block, or -1
findIndex(queue, block) ==
  IF block \in Range(queue)
  THEN CHOOSE i \in DOMAIN queue :
         queue[i] = block /\ \A j \in 1..(i - 1) : queue[j] # block
  ELSE -1

\* the boolean removeTimerFromQueue returns
removeTimerFromQueueFound(queue, block) == findIndex(queue, block) # -1

\* a removal without the idx !== -1 test: splice(-1, 1) drops the last entry
removeTimerFromQueue_noIndexTest(queue, block) ==
  IF findIndex(queue, block) # -1
  THEN SelectSeq(queue, LAMBDA b : b # block)
  ELSE SubSeq(queue, 1, Len(queue) - 1)

RECURSIVE removeTimerFromQueue(_, _)
removeTimerFromQueue(queue, block) ==
  IF queue = <<>> THEN <<>>
  ELSE IF Head(queue) = block THEN Tail(queue)
  ELSE <<Head(queue)>> \o removeTimerFromQueue(Tail(queue), block)

\* a logging call that puts the new entry in front
addToRunLog_unshift(log, entry) == <<entry>> \o log

addToRunLog(log, entry) == Append(log, entry)

LogEntry(label, plannedDuration, startedAt, endedAt) ==
  [label |-> label, plannedDuration |-> plannedDuration,
   startedAt |-> startedAt, endedAt |-> endedAt,
   actualElapsed |-> endedAt - startedAt]

\* a getter that ignores the stored level
getSoundLevel_loud == "loud"

getSoundLevel == soundLevel

\* a setSoundLevel that stores what it is given
setSoundLevel_noValidation(level) == level

\* the level setSoundLevel stores: an unknown level becomes 'off'
setSoundLevel(level) == IF level \in SoundLevels THEN level ELSE "off"

\* a loadSoundLevel that trusts whatever the store holds
loadSoundLevel_noValidation(saved) ==
  IF saved \in {Absent, Threw, ""} THEN "off" ELSE saved

\* the value loadSoundLevel returns, and assigns to state.soundLevel when it
\* is not the default: saved is what getItem gave, Absent for null, Threw
\* when it threw
loadSoundLevel(saved) ==
  IF saved \notin {Absent, Threw, ""} /\ saved \in SoundLevels
  THEN saved
  ELSE "off"

getNotificationsEnabled == notificationsEnabled

setNotificationsEnabled(enabled) == enabled

\* JSON.stringify / JSON.parse of a number: its decimal digits and back
RECURSIVE numberToJSON(_)
numberToJSON(n) ==
  IF n < 10 THEN <<n>> ELSE Append(numberToJSON(n \div 10), n % 10)

RECURSIVE numberFromJSON(_)
numberFromJSON(digits) ==
  IF Len(digits) = 1 THEN digits[1]
  ELSE 10 * numberFromJSON(SubSeq(digits, 1, Len(digits) - 1))
       + digits[Len(digits)]

\* Date.prototype.toISOString: the UTC day and the time of day to the
\* millisecond; new Date(iso) reads it back
toISOString(ms) ==
  [day |-> ms \div 86400000, hours |-> (ms \div 3600000) % 24,
   minutes |-> (ms \div 60000) % 60, seconds |-> (ms \div 1000) % 60,
   millis |-> ms % 1000]

dateFromISO(iso) ==
  iso.day * 86400000 + iso.hours * 3600000 + iso.minutes * 60000
  + iso.seconds * 1000 + iso.millis

\* exportRunLogAsJSON: one record per entry; null.toISOString() throws
exportRunLogAsJSON(log) ==
  IF \E i \in DOMAIN log : log[i].startedAt = Null \/ log[i].endedAt = Null
  THEN [status |-> "TypeError", records |-> <<>>]
  ELSE [status |-> "ok",
        records |->
          [i \in DOMAIN log |->
             [label |-> log[i].label,
              plannedDurationMs |-> numberToJSON(log[i].plannedDuration),
              actualDurationMs |-> numberToJSON(log[i].actualElapsed),
              startedAtISO |-> toISOString(log[i].startedAt),
              endedAtISO |-> toISOString(log[i].endedAt)]]]

\* updateRunLogUI: startedAt.toLocaleString() throws on an entry whose
\* startedAt is null
updateRunLogUI(log) ==
  IF \E i \in DOMAIN log : log[i].startedAt = Null
  THEN Threw
  ELSE "rendered"

(* ---------------- utils.js ---------------- *)

DigitChars == <<"0", "1", "2", "3", "4", "5", "6", "7", "8", "9">>

\* String(n) for a natural number: its decimal digits, as characters
RECURSIVE String(_)
String(n) ==
  IF n < 10 THEN <<DigitChars[n + 1]>>
  ELSE Append(String(n \div 10), DigitChars[(n % 10) + 1])

\* padStart(2, '0')
padStart2(chars) == IF Len(chars) < 2 THEN <<"0">> \o chars ELSE chars

\* Math.ceil(ms / 1000)
ceilSeconds(ms) == -((-ms) \div 1000)

\* a formatDuration that rounds the seconds down
formatDuration_floor(ms) ==
  LET totalSeconds == ms \div 1000
      hours == totalSeconds \div 3600
      minutes == (totalSeconds % 3600) \div 60
      seconds == totalSeconds % 60
  IN  IF hours > 0
      THEN String(hours) \o <<":">> \o padStart2(String(minutes))
           \o <<":">> \o padStart2(String(seconds))
      ELSE String(minutes) \o <<":">> \o padStart2(String(seconds))

\* formatDuration(ms), the string as a sequence of characters
formatDuration(ms) ==
  LET totalSeconds == ceilSeconds(ms)
      hours == totalSeconds \div 3600
      minutes == (totalSeconds % 3600) \div 60
      seconds == totalSeconds % 60
  IN  IF hours > 0
      THEN String(hours) \o <<":">> \o padStart2(String(minutes))
           \o <<":">> \o padStart2(String(seconds))
      ELSE String(minutes) \o <<":">> \o padStart2(String(seconds))

\* the durations formatDuration is tried on: every half second of the first
\* minutes, the milliseconds next to a full second, the turn of the hour
\* and of ten hours, and the two examples of its documentation
FormatInputs ==
  {k * 500 : k \in 0..MaxHalfSeconds}
  \cup {1, 999, 1001, 59001, 60001, 599000, 600000}
  \cup {3599000 + k * 500 : k \in 0..4}
  \cup {35999000 + k * 500 : k \in 0..4}
  \cup {3661000, 125000}

\* formatDuration(ms) called on its own: it reads and writes no state
callFormatDuration(ms) ==
  /\ call' = Call("formatDuration", ms, formatDuration(ms))
  /\ lastOp' = "call"
  /\ signal' = ""
  /\ effects' = NoEffects
  /\ exported' = NoExport
  /\ UNCHANGED <<timerQueue, runLog, isRunning, runningTimer,
                 runningTimerStart, timers, nextBlock, inDOM, intervals,
                 startTime, exitPending, now, logMeta, discarded, aborted,
                 soundLevel, notificationsEnabled, localStorage>>

(* ---------------- audio.js, notifications.js ---------------- *)

\* a playSound that lets the error of an audio node escape
playSound_throws(level, audio) ==
  IF level \notin SoundLevels THEN "unknown level"
  ELSE IF level = "off" THEN "silent"
  ELSE IF audio = "noContext" THEN "unavailable"
  ELSE IF audio = "nodeError" THEN Threw
  ELSE "played"

\* playSound: every failure is caught inside
playSound(level, audio) ==
  IF level \notin SoundLevels THEN "unknown level"
  ELSE IF level = "off" THEN "silent"
  ELSE IF audio = "noContext" THEN "unavailable"
  ELSE IF audio = "nodeError" THEN "error caught"
  ELSE "played"

\* showTimerCompletionNotification: null unless permission is granted and
\* the constructor succeeds
showTimerCompletionNotification(label, notification) ==
  IF notification = "unsupported" THEN "null"
  ELSE IF notification = "denied" THEN "null"
  ELSE IF notification = "constructorThrows" THEN "null"
  ELSE "shown"

(* ---------------- ui.js: startTimerAnimation ---------------- *)

\* a start that forgets setRunningTimerStart(new Date())
startTimerAnimation_noStartTime(block, ivs, dom) ==
  /\ runningTimerStart' = Null
  /\ inDOM' = dom \cup {block}
  /\ startTime' = [startTime EXCEPT ![block] = now]
  /\ intervals' = ivs \cup {block}
  /\ runningTimer' = block

\* records the start time, moves the block to the timer window, starts the
\* interval and stores the handle. ivs and dom are the live intervals and
\* the attached blocks left by the caller.
startTimerAnimation(block, ivs, dom) ==
  /\ runningTimerStart' = now
  /\ inDOM' = dom \cup {block}
  /\ startTime' = [startTime EXCEPT ![block] = now]
  /\ intervals' = ivs \cup {block}
  /\ runningTimer' = block

(* ---------------- main.js: startNextTimer ---------------- *)

\* running, rts, ivs, dom: isRunning, runningTimerStart, the live intervals
\* and the attached blocks as the calling handler left them
startNextTimer(running, rts, ivs, dom) ==
  IF Len(timerQueue) = 0
  THEN /\ isRunning' = FALSE
       /\ runningTimer' = Null
       /\ runningTimerStart' = rts
       /\ intervals' = ivs
       /\ inDOM' = dom
       /\ UNCHANGED <<timerQueue, startTime>>
  ELSE /\ isRunning' = running
       /\ timerQueue' = shiftTimerFromQueue(timerQueue)
       /\ startTimerAnimation(Head(timerQueue), ivs, dom)

(* ---------------- main.js: handlers ---------------- *)

\* a start button without the isRunning() guard
handleStartQueue_noGuard ==
  /\ lastOp' = "startQueue"
  /\ signal' = ""
  /\ IF Len(timerQueue) = 0
     THEN UNCHANGED <<timerQueue, isRunning, runningTimer,
                      runningTimerStart, inDOM, intervals, startTime>>
     ELSE startNextTimer(TRUE, runningTimerStart, intervals, inDOM)
  /\ UNCHANGED <<runLog, timers, nextBlock, exitPending, now, logMeta,
                 discarded, aborted>>
  /\ quiet

\* a start button that starts the head without setIsRunning(true)
handleStartQueue_keepsIdle ==
  /\ lastOp' = "startQueue"
  /\ IF isRunning
     THEN /\ signal' = "A timer is already running"
          /\ UNCHANGED <<timerQueue, isRunning, runningTimer,
                         runningTimerStart, inDOM, intervals, startTime>>
     ELSE /\ signal' = ""
          /\ IF Len(timerQueue) = 0
             THEN UNCHANGED <<timerQueue, isRunning, runningTimer,
                              runningTimerStart, inDOM, intervals, startTime>>
             ELSE startNextTimer(FALSE, runningTimerStart, intervals, inDOM)
  /\ UNCHANGED <<runLog, timers, nextBlock, exitPending, now, logMeta,
                 discarded, aborted>>
  /\ quiet

handleStartQueue ==
  /\ lastOp' = "startQueue"
  /\ IF isRunning
     THEN /\ signal' = "A timer is already running"
          /\ UNCHANGED <<timerQueue, isRunning, runningTimer,
                         runningTimerStart, inDOM, intervals, startTime>>
     ELSE /\ signal' = ""
          /\ IF Len(timerQueue) = 0
             THEN UNCHANGED <<timerQueue, isRunning, runningTimer,
                              runningTimerStart, inDOM, intervals, startTime>>
             ELSE startNextTimer(TRUE, runningTimerStart, intervals, inDOM)
  /\ UNCHANGED <<runLog, timers, nextBlock, exitPending, now, logMeta,
                 discarded, aborted>>
  /\ quiet

\* handleAddCustomTimer and handleAddPresetTimer both end in createTimerBlock
createTimerBlock(spec) ==
  /\ nextBlock <= MaxTimers
  /\ timers' = [timers EXCEPT ![nextBlock] = spec]
  /\ inDOM' = inDOM \cup {nextBlock}
  /\ timerQueue' = addTimerToQueue(timerQueue, nextBlock)
  /\ nextBlock' = nextBlock + 1
  /\ signal' = ""
  /\ lastOp' = "add"
  /\ UNCHANGED <<runLog, isRunning, runningTimer, runningTimerStart,
                 intervals, startTime, exitPending, now, logMeta, discarded,
                 aborted>>
  /\ quiet

handleClearLog ==
  /\ runLog' = <<>>
  /\ logMeta' = <<>>
  /\ signal' = ""
  /\ lastOp' = "clearLog"
  /\ UNCHANGED <<timerQueue, isRunning, runningTimer, runningTimerStart,
                 timers, nextBlock, inDOM, intervals, startTime, exitPending,
                 now, discarded, aborted>>
  /\ quiet

handleClearAll ==
  /\ IF isRunning /\ runningTimer # Null
     THEN /\ intervals' = intervals \ {runningTimer}
          /\ runningTimer' = Null
          /\ isRunning' = FALSE
     ELSE UNCHANGED <<intervals, runningTimer, isRunning>>
  \* clearQueueBar and clearTimerWindow detach every block
  /\ inDOM' = {}
  /\ timerQueue' = <<>>
  /\ signal' = ""
  /\ lastOp' = "clearAll"
  /\ discarded' = (discarded \cup ({runningTimer} \ {Null})) \cap intervals'
  /\ aborted' = aborted \cup exitPending
  /\ UNCHANGED <<runLog, runningTimerStart, timers, nextBlock, startTime,
                 exitPending, now, logMeta>>
  /\ quiet

\* the sound selector: store the level, then play a test beep
handleSoundLevelChange(level, storageWorks) ==
  /\ soundLevel' = setSoundLevel(level)
  /\ localStorage' =
       IF storageWorks THEN setSoundLevel(level) ELSE localStorage
  /\ \E audio \in AudioStates :
       effects' =
         IF level # "off"
         THEN Effects(level, playSound(level, audio), NotCalled, NotCalled)
         ELSE NoEffects
  /\ exported' = NoExport
  /\ call' = Call("setSoundLevel", level,
                  IF storageWorks THEN "saved" ELSE "save failed")
  /\ signal' = ""
  /\ lastOp' = "soundLevel"
  /\ UNCHANGED <<timerQueue, runLog, isRunning, runningTimer,
                 runningTimerStart, timers, nextBlock, inDOM, intervals,
                 startTime, exitPending, now, logMeta, discarded, aborted,
                 notificationsEnabled>>

\* the notification checkbox, once the permission request has resolved
handleNotificationToggle(checked, permission) ==
  /\ notificationsEnabled' =
       IF checked
       THEN setNotificationsEnabled(permission = "granted")
       ELSE setNotificationsEnabled(FALSE)
  /\ effects' = NoEffects
  /\ exported' = NoExport
  /\ call' = NoCall
  /\ signal' = ""
  /\ lastOp' = "notifications"
  /\ UNCHANGED <<timerQueue, runLog, isRunning, runningTimer,
                 runningTimerStart, timers, nextBlock, inDOM, intervals,
                 startTime, exitPending, now, logMeta, discarded, aborted,
                 soundLevel, localStorage>>

\* the export button: the JSON text goes to the download
handleExportLog ==
  /\ exported' = exportRunLogAsJSON(runLog)
  /\ effects' = NoEffects
  /\ call' = NoCall
  /\ signal' = ""
  /\ lastOp' = "export"
  /\ UNCHANGED <<timerQueue, runLog, isRunning, runningTimer,
                 runningTimerStart, timers, nextBlock, inDOM, intervals,
                 startTime, exitPending, now, logMeta, discarded, aborted,
                 soundLevel, notificationsEnabled, localStorage>>

\* the page is loaded: the module state is fresh and initializeApp reads
\* the saved level; the store and the clock are the browser's
initializeApp(storageWorks) ==
  LET saved == IF storageWorks THEN localStorage ELSE Threw
  IN  /\ soundLevel' = loadSoundLevel(saved)
      /\ call' = Call("loadSoundLevel", saved, loadSoundLevel(saved))
      /\ lastOp' = "load"
      /\ timerQueue' = <<>>
      /\ runLog' = <<>>
      /\ isRunning' = FALSE
      /\ runningTimer' = Null
      /\ runningTimerStart' = Null
      /\ timers' = [b \in Blocks |-> OneMinBreath]
      /\ nextBlock' = 1
      /\ inDOM' = {}
      /\ intervals' = {}
      /\ startTime' = [b \in Blocks |-> Null]
      /\ exitPending' = {}
      /\ signal' = ""
      /\ logMeta' = <<>>
      /\ discarded' = {}
      /\ aborted' = {}
      /\ notificationsEnabled' = FALSE
      /\ effects' = NoEffects
      /\ exported' = NoExport
      /\ UNCHANGED <<now, localStorage>>

\* loadSoundLevel called on the module state as it is: a stored level of
\* SOUND_LEVELS is assigned to state.soundLevel and returned; otherwise
\* 'off' is returned and state.soundLevel is left as it was
callLoadSoundLevel(storageWorks) ==
  LET saved == IF storageWorks THEN localStorage ELSE Threw
  IN  /\ soundLevel' =
           IF saved \notin {Absent, Threw, ""} /\ saved \in SoundLevels
           THEN saved
           ELSE soundLevel
      /\ call' = Call("loadSoundLevel", saved, loadSoundLevel(saved))
      /\ lastOp' = "call"
      /\ signal' = ""
      /\ effects' = NoEffects
      /\ exported' = NoExport
      /\ UNCHANGED <<timerQueue, runLog, isRunning, runningTimer,
                     runningTimerStart, timers, nextBlock, inDOM, intervals,
                     startTime, exitPending, now, logMeta, discarded,
                     aborted, notificationsEnabled, localStorage>>

\* the stored item changes outside the page: another tab of the app, the
\* browser's storage tools
storageChanged(value) ==
  /\ value # localStorage
  /\ localStorage' = value
  /\ lastOp' = "storage"
  /\ signal' = ""
  /\ effects' = NoEffects
  /\ exported' = NoExport
  /\ call' = NoCall
  /\ UNCHANGED <<timerQueue, runLog, isRunning, runningTimer,
                 runningTimerStart, timers, nextBlock, inDOM, intervals,
                 startTime, exitPending, now, logMeta, discarded, aborted,
                 soundLevel, notificationsEnabled>>

(* ---------------- timer-model.js called directly ---------------- *)

\* the part of the state no queue function mentions, history included
queueCallFrame ==
  /\ lastOp' = "call"
  /\ signal' = ""
  /\ effects' = NoEffects
  /\ exported' = NoExport
  /\ UNCHANGED <<runLog, timers, nextBlock, inDOM, intervals, startTime,
                 exitPending, now, logMeta, discarded, aborted, soundLevel,
                 notificationsEnabled, localStorage>>

\* addTimerToQueue(timer) for a timer that was created and is not queued
callAddTimerToQueue(block) ==
  /\ block < nextBlock
  /\ block \notin Range(timerQueue)
  /\ timerQueue' = addTimerToQueue(timerQueue, block)
  /\ call' = Call("addTimerToQueue", block, <<>>)
  /\ UNCHANGED <<isRunning, runningTimer, runningTimerStart>>
  /\ queueCallFrame

\* shiftTimerFromQueue(): returns the head, undefined on an empty queue
callShiftTimerFromQueue ==
  /\ timerQueue' = shiftTimerFromQueue(timerQueue)
  /\ call' = Call("shiftTimerFromQueue", <<>>,
                  IF Len(timerQueue) = 0 THEN Null ELSE Head(timerQueue))
  /\ UNCHANGED <<isRunning, runningTimer, runningTimerStart>>
  /\ queueCallFrame

\* removeTimerFromQueue(block)
callRemoveTimerFromQueue(block) ==
  /\ timerQueue' = removeTimerFromQueue(timerQueue, block)
  /\ call' = Call("removeTimerFromQueue", block,
                  removeTimerFromQueueFound(timerQueue, block))
  /\ UNCHANGED <<isRunning, runningTimer, runningTimerStart>>
  /\ queueCallFrame

\* a clearTimerQueue that also drops the handle and the running flag
callClearTimerQueue_stopsTimer ==
  /\ timerQueue' = <<>>
  /\ call' = Call("clearTimerQueue", Len(timerQueue), <<>>)
  /\ isRunning' = FALSE
  /\ runningTimer' = Null
  /\ UNCHANGED runningTimerStart
  /\ queueCallFrame

\* clearTimerQueue(): state.timerQueue.length = 0; the input recorded is the
\* length it found
callClearTimerQueue ==
  /\ timerQueue' = <<>>
  /\ call' = Call("clearTimerQueue", Len(timerQueue), <<>>)
  /\ UNCHANGED <<isRunning, runningTimer, runningTimerStart>>
  /\ queueCallFrame

(* ---------------- ui.js: the delete button ---------------- *)

\* a delete button that cancels the running timer without calling onDelete()
deleteClick_noAdvance(block) ==
  /\ block \in inDOM
  /\ signal' = ""
  /\ IF runningTimer # Null /\ runningTimer = block
     THEN /\ runLog' = addToRunLog(runLog,
                LogEntry(timers[block].label, timers[block].duration,
                         runningTimerStart, now))
          /\ logMeta' = Append(logMeta, [block |-> block, kind |-> "cancel"])
          /\ lastOp' = "cancel"
          /\ runningTimer' = Null
          /\ runningTimerStart' = Null
          /\ isRunning' = FALSE
          /\ intervals' = intervals \ {block}
          /\ inDOM' = inDOM \ {block}
          /\ UNCHANGED <<timerQueue, startTime>>
     ELSE /\ timerQueue' = removeTimerFromQueue(timerQueue, block)
          /\ inDOM' = inDOM \ {block}
          /\ lastOp' = "remove"
          /\ UNCHANGED <<runLog, logMeta, isRunning, runningTimer,
                         runningTimerStart, intervals, startTime>>
  /\ UNCHANGED <<timers, nextBlock, exitPending, now, discarded, aborted>>
  /\ quiet

\* a delete button that stops the run whenever any block is deleted
deleteClick_stopsRun(block) ==
  /\ block \in inDOM
  /\ signal' = ""
  /\ IF runningTimer # Null /\ runningTimer = block
     THEN /\ runLog' = addToRunLog(runLog,
                LogEntry(timers[block].label, timers[block].duration,
                         runningTimerStart, now))
          /\ logMeta' = Append(logMeta, [block |-> block, kind |-> "cancel"])
          /\ lastOp' = "cancel"
          /\ IF updateRunLogUI(runLog') = Threw
             THEN \* the handler ends before onDelete()
                  /\ runningTimer' = Null
                  /\ runningTimerStart' = Null
                  /\ intervals' = intervals \ {block}
                  /\ inDOM' = inDOM \ {block}
                  /\ UNCHANGED <<isRunning, timerQueue, startTime>>
             ELSE startNextTimer(isRunning, Null, intervals \ {block},
                                 inDOM \ {block})
     ELSE /\ timerQueue' = removeTimerFromQueue(timerQueue, block)
          /\ inDOM' = inDOM \ {block}
          /\ lastOp' = "remove"
          /\ isRunning' = FALSE
          /\ UNCHANGED <<runLog, logMeta, runningTimer,
                         runningTimerStart, intervals, startTime>>
  /\ UNCHANGED <<timers, nextBlock, exitPending, now, discarded, aborted>>
  /\ quiet

\* a delete button that cancels without clearInterval
deleteClick_keepsInterval(block) ==
  /\ block \in inDOM
  /\ signal' = ""
  /\ IF runningTimer # Null /\ runningTimer = block
     THEN \* cancel the running timer, log it, start the next one
          /\ runLog' = addToRunLog(runLog,
                LogEntry(timers[block].label, timers[block].duration,
                         runningTimerStart, now))
          /\ logMeta' = Append(logMeta, [block |-> block, kind |-> "cancel"])
          /\ lastOp' = "cancel"
          /\ IF updateRunLogUI(runLog') = Threw
             THEN \* the handler ends before onDelete()
                  /\ runningTimer' = Null
                  /\ runningTimerStart' = Null
                  /\ intervals' = intervals
                  /\ inDOM' = inDOM \ {block}
                  /\ UNCHANGED <<isRunning, timerQueue, startTime>>
             ELSE startNextTimer(isRunning, Null, intervals,
                                 inDOM \ {block})
     ELSE /\ timerQueue' = removeTimerFromQueue(timerQueue, block)
          /\ inDOM' = inDOM \ {block}
          /\ lastOp' = "remove"
          /\ UNCHANGED <<runLog, logMeta, isRunning, runningTimer,
                         runningTimerStart, intervals, startTime>>
  /\ UNCHANGED <<timers, nextBlock, exitPending, now, discarded, aborted>>
  /\ quiet

\* a click on the delete button of an attached block
deleteClick(block) ==
  /\ block \in inDOM
  /\ signal' = ""
  /\ IF runningTimer # Null /\ runningTimer = block
     THEN \* cancel the running timer, log it, start the next one
          /\ runLog' = addToRunLog(runLog,
                LogEntry(timers[block].label, timers[block].duration,
                         runningTimerStart, now))
          /\ logMeta' = Append(logMeta, [block |-> block, kind |-> "cancel"])
          /\ lastOp' = "cancel"
          /\ IF updateRunLogUI(runLog') = Threw
             THEN \* the handler ends before onDelete()
                  /\ runningTimer' = Null
                  /\ runningTimerStart' = Null
                  /\ intervals' = intervals \ {block}
                  /\ inDOM' = inDOM \ {block}
                  /\ UNCHANGED <<isRunning, timerQueue, startTime>>
             ELSE startNextTimer(isRunning, Null, intervals \ {block},
                                 inDOM \ {block})
     ELSE /\ timerQueue' = removeTimerFromQueue(timerQueue, block)
          /\ inDOM' = inDOM \ {block}
          /\ lastOp' = "remove"
          /\ UNCHANGED <<runLog, logMeta, isRunning, runningTimer,
                         runningTimerStart, intervals, startTime>>
  /\ UNCHANGED <<timers, nextBlock, exitPending, now, discarded, aborted>>
  /\ quiet

(* ---------------- ui.js: callbacks of startTimerAnimation ------------- *)

\* an interval callback that clears the handle at once instead of leaving it
\* to the exit animation callback
intervalTick_clearsHandle(block) ==
  /\ block \in intervals
  /\ signal' = ""
  /\ exported' = NoExport
  /\ call' = NoCall
  /\ UNCHANGED <<soundLevel, notificationsEnabled, localStorage>>
  /\ IF endTime(block) - now <= 0
     THEN \E audio \in AudioStates, notification \in NotificationStates :
            LET sound == playSound(getSoundLevel, audio)
                shown ==
                  IF sound = Threw \/ ~getNotificationsEnabled
                  THEN NotCalled
                  ELSE showTimerCompletionNotification(timers[block].label,
                                                       notification)
            IN  /\ intervals' = intervals \ {block}
                /\ lastOp' = "complete"
                /\ effects' =
                     Effects(getSoundLevel, sound,
                             IF shown = NotCalled THEN NotCalled
                             ELSE timers[block].label, shown)
                /\ IF sound = Threw \/ shown = Threw
                   THEN \* an exception ends the callback here
                        UNCHANGED <<runLog, logMeta, exitPending>>
                   ELSE /\ runLog' = addToRunLog(runLog,
                             LogEntry(timers[block].label,
                                      timers[block].duration,
                                      runningTimerStart, now))
                        /\ logMeta' = Append(logMeta,
                             [block |-> block, kind |-> "complete"])
                        /\ exitPending' =
                             IF updateRunLogUI(runLog') = Threw
                             THEN \* the callback ends in logTimerCompletion
                                  exitPending
                             ELSE exitPending \cup {block}
                /\ runningTimer' = Null
     ELSE /\ lastOp' = "tick"
          /\ effects' = NoEffects
          /\ UNCHANGED <<intervals, runLog, logMeta, exitPending,
                         runningTimer>>
  /\ discarded' =
       IF endTime(block) - now <= 0 THEN discarded \ {block} ELSE discarded
  /\ UNCHANGED <<timerQueue, isRunning, runningTimerStart, timers,
                 nextBlock, inDOM, startTime, now, aborted>>

\* an interval callback that drops the handle on every early tick
intervalTick_resetsOnTick(block) ==
  /\ block \in intervals
  /\ signal' = ""
  /\ exported' = NoExport
  /\ call' = NoCall
  /\ UNCHANGED <<soundLevel, notificationsEnabled, localStorage>>
  /\ IF endTime(block) - now <= 0
     THEN \E audio \in AudioStates, notification \in NotificationStates :
            LET sound == playSound(getSoundLevel, audio)
                shown ==
                  IF sound = Threw \/ ~getNotificationsEnabled
                  THEN NotCalled
                  ELSE showTimerCompletionNotification(timers[block].label,
                                                       notification)
            IN  /\ intervals' = intervals \ {block}
                /\ lastOp' = "complete"
                /\ effects' =
                     Effects(getSoundLevel, sound,
                             IF shown = NotCalled THEN NotCalled
                             ELSE timers[block].label, shown)
                /\ IF sound = Threw \/ shown = Threw
                   THEN \* an exception ends the callback here
                        UNCHANGED <<runLog, logMeta, exitPending>>
                   ELSE /\ runLog' = addToRunLog(runLog,
                             LogEntry(timers[block].label,
                                      timers[block].duration,
                                      runningTimerStart, now))
                        /\ logMeta' = Append(logMeta,
                             [block |-> block, kind |-> "complete"])
                        /\ exitPending' =
                             IF updateRunLogUI(runLog') = Threw
                             THEN \* the callback ends in logTimerCompletion
                                  exitPending
                             ELSE exitPending \cup {block}
                /\ UNCHANGED runningTimer
     ELSE /\ lastOp' = "tick"
          /\ effects' = NoEffects
          /\ runningTimer' = Null
          /\ UNCHANGED <<intervals, runLog, logMeta, exitPending>>
  /\ discarded' =
       IF endTime(block) - now <= 0 THEN discarded \ {block} ELSE discarded
  /\ UNCHANGED <<timerQueue, isRunning, runningTimerStart, timers,
                 nextBlock, inDOM, startTime, now, aborted>>

\* the setInterval callback of a block whose interval is live
intervalTick(block) ==
  /\ block \in intervals
  /\ signal' = ""
  /\ exported' = NoExport
  /\ call' = NoCall
  /\ UNCHANGED <<soundLevel, notificationsEnabled, localStorage>>
  /\ IF endTime(block) - now <= 0
     THEN \E audio \in AudioStates, notification \in NotificationStates :
            LET sound == playSound(getSoundLevel, audio)
                shown ==
                  IF sound = Threw \/ ~getNotificationsEnabled
                  THEN NotCalled
                  ELSE showTimerCompletionNotification(timers[block].label,
                                                       notification)
            IN  /\ intervals' = intervals \ {block}
                /\ lastOp' = "complete"
                /\ effects' =
                     Effects(getSoundLevel, sound,
                             IF shown = NotCalled THEN NotCalled
                             ELSE timers[block].label, shown)
                /\ IF sound = Threw \/ shown = Threw
                   THEN \* an exception ends the callback here
                        UNCHANGED <<runLog, logMeta, exitPending>>
                   ELSE /\ runLog' = addToRunLog(runLog,
                             LogEntry(timers[block].label,
                                      timers[block].duration,
                                      runningTimerStart, now))
                        /\ logMeta' = Append(logMeta,
                             [block |-> block, kind |-> "complete"])
                        /\ exitPending' =
                             IF updateRunLogUI(runLog') = Threw
                             THEN \* the callback ends in logTimerCompletion
                                  exitPending
                             ELSE exitPending \cup {block}
                /\ UNCHANGED runningTimer
     ELSE /\ lastOp' = "tick"
          /\ effects' = NoEffects
          /\ UNCHANGED <<intervals, runLog, logMeta, exitPending,
                         runningTimer>>
  /\ discarded' =
       IF endTime(block) - now <= 0 THEN discarded \ {block} ELSE discarded
  /\ UNCHANGED <<timerQueue, isRunning, runningTimerStart, timers,
                 nextBlock, inDOM, startTime, now, aborted>>

\* an exit animation callback that clears the handle and forgets callback()
exitAnimationCallback_noCallback(block) ==
  /\ block \in exitPending
  /\ exitPending' = exitPending \ {block}
  /\ signal' = ""
  /\ lastOp' = "exit"
  /\ aborted' = aborted \ {block}
  /\ runningTimer' = Null
  /\ runningTimerStart' = Null
  /\ inDOM' = inDOM \ {block}
  /\ UNCHANGED <<isRunning, timerQueue, intervals, startTime>>
  /\ UNCHANGED <<runLog, timers, nextBlock, now, logMeta, discarded>>
  /\ quiet

\* the onComplete / setTimeout callback of the exit animation
exitAnimationCallback(block) ==
  /\ block \in exitPending
  /\ exitPending' = exitPending \ {block}
  /\ signal' = ""
  /\ lastOp' = "exit"
  /\ aborted' = aborted \ {block}
  /\ startNextTimer(isRunning, Null, intervals, inDOM \ {block})
  /\ UNCHANGED <<runLog, timers, nextBlock, now, logMeta, discarded>>
  /\ quiet

(* ---------------- the environment ---------------- *)

\* the clock moves on by one step; the exit animations (half a second) have
\* ended by then
advanceClock ==
  /\ now < LastNow
  /\ exitPending = {}
  /\ now' = now + ClockStep
  /\ lastOp' = "clock"
  /\ UNCHANGED <<timerQueue, runLog, isRunning, runningTimer,
                 runningTimerStart, timers, nextBlock, inDOM, intervals,
                 startTime, exitPending, signal, logMeta, discarded, aborted>>
  /\ quiet

\* the clock keeps moving past LastNow for as long as a live countdown is
\* still waiting for its end
advanceClockWhileRunning ==
  /\ now >= LastNow
  /\ exitPending = {}
  /\ \E block \in intervals : now < endTime(block)
  /\ now' = now + ClockStep
  /\ lastOp' = "clock"
  /\ UNCHANGED <<timerQueue, runLog, isRunning, runningTimer,
                 runningTimerStart, timers, nextBlock, inDOM, intervals,
                 startTime, exitPending, signal, logMeta, discarded, aborted>>
  /\ quiet

Next ==
  \/ handleStartQueue
  \/ \E spec \in TimerSpecs : createTimerBlock(spec)
  \/ handleClearLog
  \/ handleClearAll
  \/ \E block \in Blocks : deleteClick(block)
  \/ \E block \in Blocks : intervalTick(block)
  \/ \E block \in Blocks : exitAnimationCallback(block)
  \/ advanceClock

Spec == Init /\ [][Next]_vars

\* the queue runner together with the sound and notification settings
NextAlerts ==
  \/ Next /\ nextBlock' <= AlertTimers + 1 /\ now' <= AlertLastNow
  \/ \E level \in LevelChoices : handleSoundLevelChange(level, TRUE)
  \/ \E checked \in BOOLEAN, permission \in {"granted", "denied"} :
       handleNotificationToggle(checked, permission)

SpecAlerts == Init /\ [][NextAlerts]_vars

\* the same with the whole clock range
NextAlertsLong ==
  \/ Next /\ nextBlock' <= AlertTimers + 1
  \/ \E level \in LevelChoices : handleSoundLevelChange(level, TRUE)
  \/ \E checked \in BOOLEAN, permission \in {"granted", "denied"} :
       handleNotificationToggle(checked, permission)

SpecAlertsLong == Init /\ [][NextAlertsLong]_vars

\* the queue functions of timer-model.js called directly, on the states
\* that adding timers and starting the queue produce
NextQueue ==
  \/ \E spec \in TimerSpecs : createTimerBlock(spec)
  \/ handleStartQueue
  \/ \E block \in Blocks : callAddTimerToQueue(block)
  \/ callShiftTimerFromQueue
  \/ \E block \in Blocks : callRemoveTimerFromQueue(block)
  \/ callClearTimerQueue

SpecQueue == Init /\ [][NextQueue]_vars

\* the sound preference: the selector, the page load and the store
NextPrefs ==
  \/ \E level \in PrefInputs, storageWorks \in BOOLEAN :
       handleSoundLevelChange(level, storageWorks)
  \/ \E storageWorks \in BOOLEAN : initializeApp(storageWorks)
  \/ \E value \in StoredValues : storageChanged(value)

SpecPrefs == Init /\ [][NextPrefs]_vars

\* the same with loadSoundLevel called at any time, not only by initializeApp
NextPrefsCalls ==
  \/ NextPrefs
  \/ \E storageWorks \in BOOLEAN : callLoadSoundLevel(storageWorks)

SpecPrefsCalls == Init /\ [][NextPrefsCalls]_vars

\* formatDuration on its inputs
NextFormat == \E ms \in FormatInputs : callFormatDuration(ms)

SpecFormat == Init /\ [][NextFormat]_vars

\* the queue runner together with the export button
NextExport ==
  \/ Next
  \/ handleExportLog

SpecExport == Init /\ [][NextExport]_vars

\* the queue runner left alone: timers are added, the queue is started, the
\* log is cleared, and nothing is cancelled, removed or cleared
NextProgress ==
  \/ handleStartQueue
  \/ \E spec \in TimerSpecs : createTimerBlock(spec)
  \/ handleClearLog
  \/ \E block \in Blocks : intervalTick(block)
  \/ \E block \in Blocks : exitAnimationCallback(block)
  \/ advanceClock
  \/ advanceClockWhileRunning

\* time keeps advancing, and the browser delivers every interval tick and
\* every exit animation callback that is due
Delivery ==
  /\ WF_vars(advanceClock \/ advanceClockWhileRunning)
  /\ \A block \in Blocks : WF_vars(intervalTick(block))
  /\ \A block \in Blocks : WF_vars(exitAnimationCallback(block))

SpecProgress == Init /\ [][NextProgress]_vars /\ Delivery

(* ======================= the claims ======================= *)

Last(s) == s[Len(s)]

\* the log entry the code is expected to write for a block that was started
\* at startTime[block] and ends now
EntryFor(block, endedAt) ==
  [label |-> timers[block].label,
   plannedDuration |-> timers[block].duration,
   startedAt |-> startTime[block], endedAt |-> endedAt,
   actualElapsed |-> endedAt - startTime[block]]

\* C1: in every reachable state the running flag is true iff an active
\* timer handle (runningTimer) is present.
RunningIffHandle == isRunning <=> (runningTimer # Null)

\* C2: at most one countdown (live periodic check) exists at any instant.
AtMostOneCountdown == Cardinality(intervals) <= 1

\* C3 (as stated): cancelling the active timer does not auto-advance: right
\* after it the running flag is false, no timer is active and the queue is
\* as it was.
CancelDoesNotAdvance ==
  [][lastOp' = "cancel" =>
       /\ ~isRunning'
       /\ runningTimer' = Null
       /\ timerQueue' = timerQueue]_vars

\* C3 (amended): cancelling the active timer calls startNextTimer: with a
\* non-empty queue the head is dequeued and becomes the active timer, started
\* at the time of the cancellation, and the running flag is left as it was;
\* with an empty queue the running flag is false and no timer is active.
\* Only a handler that ends early, because the run log cannot be rendered,
\* stops after clearing the handle and advances nothing.
CancelAdvances ==
  [][lastOp' = "cancel" =>
       IF updateRunLogUI(runLog') = Threw
       THEN /\ runningTimer' = Null
            /\ intervals' = intervals \ {runningTimer}
            /\ UNCHANGED <<isRunning, timerQueue>>
       ELSE IF timerQueue = <<>>
       THEN /\ ~isRunning'
            /\ runningTimer' = Null
            /\ timerQueue' = <<>>
            /\ intervals' = intervals \ {runningTimer}
       ELSE /\ isRunning' = isRunning
            /\ runningTimer' = Head(timerQueue)
            /\ timerQueue' = Tail(timerQueue)
            /\ runningTimerStart' = now
            /\ intervals' = (intervals \ {runningTimer}) \cup {Head(timerQueue)}]_vars

CancelAdvancedWitness ==
  /\ lastOp = "cancel"
  /\ isRunning
  /\ runningTimer # Null
  /\ runningTimer \in intervals
  /\ Len(runLog) > 0
  /\ Last(logMeta).kind = "cancel"
  /\ Last(logMeta).block # runningTimer

\* C4: start() while the running flag is true signals "already running" and
\* changes neither the queue, the active timer, its start time, the running
\* flag nor the run log.
StartWhileRunningRejected ==
  [][(lastOp' = "startQueue" /\ isRunning) =>
       /\ signal' = "A timer is already running"
       /\ UNCHANGED <<timerQueue, runLog, isRunning, runningTimer,
                      runningTimerStart, intervals, startTime>>]_vars

StartRejectedWitness ==
  /\ lastOp = "startQueue"
  /\ signal = "A timer is already running"
  /\ isRunning
  /\ runningTimer # Null
  /\ Len(timerQueue) > 0

\* C5: every natural completion appends one entry with the label and planned
\* duration of the completed spec and actualElapsed >= plannedDuration; an
\* entry with actualElapsed < plannedDuration comes from a cancellation only.
NaturalCompletionElapsed ==
  /\ lastOp = "complete" =>
       Len(runLog) > 0 /\ Last(logMeta).kind = "complete"
  /\ \A i \in DOMAIN runLog :
       logMeta[i].kind = "complete" =>
         /\ runLog[i].label = timers[logMeta[i].block].label
         /\ runLog[i].plannedDuration = timers[logMeta[i].block].duration
         /\ runLog[i].actualElapsed >= runLog[i].plannedDuration
  /\ \A i \in DOMAIN runLog :
       runLog[i].actualElapsed < runLog[i].plannedDuration =>
         logMeta[i].kind = "cancel"

\* C6: every cancellation of the active timer appends exactly one entry:
\* the label and planned duration of the cancelled spec, and actualElapsed =
\* time of the cancellation - time at which that timer was started.
CancelLogsElapsed ==
  [][lastOp' = "cancel" =>
       runLog' = Append(runLog, EntryFor(runningTimer, now))]_vars

CancelEarlyWitness ==
  /\ lastOp = "cancel"
  /\ Len(runLog) > 0
  /\ Last(logMeta).kind = "cancel"
  /\ Last(runLog).actualElapsed > 0
  /\ Last(runLog).actualElapsed < Last(runLog).plannedDuration

\* C7: clearAll() in any reachable state leaves the queue empty, no active
\* timer handle, no countdown still ticking and the running flag false.
ClearAllResets ==
  lastOp = "clearAll" =>
    /\ timerQueue = <<>>
    /\ runningTimer = Null
    /\ intervals = {}
    /\ ~isRunning

\* C8: clearAll() leaves the run log unchanged, and no entry is appended
\* afterwards for a timer that was active when clearAll() ran.
ClearAllNeverLogs ==
  [][/\ lastOp' = "clearAll" => runLog' = runLog
     /\ Len(runLog') > Len(runLog) =>
          Last(logMeta').block \notin discarded]_vars

\* C9: the exit animation callback of a completion that was in flight when
\* clearAll() ran has no effect: it starts no timer, dequeues no spec and
\* leaves the running flag alone, also when specs were enqueued meanwhile.
AbortedExitHasNoEffect ==
  [][\A block \in aborted :
       (block \in exitPending /\ block \notin exitPending') =>
         UNCHANGED <<timerQueue, isRunning, runningTimer, intervals>>]_vars

\* C10: the queue never holds the active spec, and a spec leaves the queue
\* by a dequeue only in the step that makes it the active timer.
QueueNeverHoldsActive ==
  /\ [](runningTimer # Null => runningTimer \notin Range(timerQueue))
  /\ [][\A block \in Range(timerQueue) \ Range(timerQueue') :
          lastOp' \in {"remove", "clearAll"} \/ runningTimer' = block]_vars

DequeuedIsActiveWitness ==
  /\ lastOp \in {"startQueue", "exit", "cancel"}
  /\ runningTimer # Null
  /\ runningTimer \in intervals
  /\ Len(timerQueue) > 0

\* C11: the exit animation callback of a natural completion clears the
\* handle and then starts the head of a non-empty queue with the running flag
\* still true, or, with an empty queue, ends Idle with the flag false and no
\* handle.
AdvanceAfterCompletion ==
  [][lastOp' = "exit" =>
       IF timerQueue = <<>>
       THEN ~isRunning' /\ runningTimer' = Null
       ELSE /\ isRunning'
            /\ runningTimer' = Head(timerQueue)
            /\ timerQueue' = Tail(timerQueue)]_vars

\* a comes before b in the queue
Before(queue, a, b) ==
  \E i, j \in DOMAIN queue : i < j /\ queue[i] = a /\ queue[j] = b

\* C12: the queue is a strict FIFO: an enqueue appends at the tail, a timer
\* that becomes active is the head of the queue, and two specs that stay
\* pending keep their relative order in every step.
QueueIsFifo ==
  [][/\ lastOp' = "add" => timerQueue' = Append(timerQueue, nextBlock)
     /\ (runningTimer' # Null /\ runningTimer' # runningTimer) =>
          /\ timerQueue # <<>>
          /\ runningTimer' = Head(timerQueue)
          /\ timerQueue' = Tail(timerQueue)
     /\ \A a, b \in Range(timerQueue) \cap Range(timerQueue') :
          Before(timerQueue, a, b) <=> Before(timerQueue', a, b)]_vars

MiddleRemovedWitness ==
  /\ lastOp = "remove"
  /\ Len(timerQueue) = 2
  /\ timerQueue[1] + 1 < timerQueue[2]

\* C13: removing by identity takes out exactly the one queued entry with that
\* identity, returns true and keeps the others in order; for an identity that
\* is not queued it returns false and leaves the queue as it is.
RemoveByIdentity ==
  \A block \in Blocks :
    LET after == removeTimerFromQueue(timerQueue, block)
        found == removeTimerFromQueueFound(timerQueue, block)
    IN  IF block \in Range(timerQueue)
        THEN /\ found
             /\ Len(after) = Len(timerQueue) - 1
             /\ after = SelectSeq(timerQueue, LAMBDA b : b # block)
        ELSE /\ ~found
             /\ after = timerQueue

RemovedOneWitness ==
  /\ lastOp = "remove"
  /\ nextBlock = 3
  /\ Len(timerQueue) = 1
  /\ runningTimer = Null
  /\ intervals = {}
  /\ runLog = <<>>

\* C14: deleting a block that is not the active one only removes it from the
\* queue: the running flag, the handle, its start time, the countdowns and
\* the run log are unchanged.
RemoveQueuedLeavesController ==
  [][lastOp' = "remove" =>
       /\ UNCHANGED <<isRunning, runningTimer, runningTimerStart, runLog,
                      intervals, startTime, exitPending>>
       /\ \E block \in inDOM \ inDOM' :
            timerQueue' = SelectSeq(timerQueue, LAMBDA b : b # block)]_vars

RemoveWhileRunningWitness ==
  /\ lastOp = "remove"
  /\ isRunning
  /\ runningTimer # Null
  /\ runningTimer \in intervals
  /\ Len(timerQueue) = 1
  /\ nextBlock = 4

\* C16: completion is decided by the wall clock: the tick of a block
\* completes it exactly when now >= its start + planned duration, whatever
\* the delay of the tick, and the entry logged then has actualElapsed =
\* now - the time at which that timer was started.
CompletionByWallClock ==
  [][/\ lastOp' = "complete" =>
          \E block \in intervals \ intervals' :
            /\ now >= startTime[block] + timers[block].duration
            /\ Last(runLog').actualElapsed = now - startTime[block]
     /\ lastOp' = "tick" => \E block \in intervals : now < endTime(block)]_vars

\* C17 (as stated): clearing the handle and advancing does not wait for the
\* exit animation: no exit animation is pending for a block that is still
\* the active handle.
ExitDoesNotBlock == \A block \in exitPending : runningTimer # block

\* C17 (amended): the completing tick only schedules the exit animation and
\* leaves the handle, its start time, the running flag and the queue as they
\* are; the handle is cleared and the next spec started (or Idle entered) by
\* the completion callback of the exit animation. The animation is started
\* by every completing tick that gets past rendering the run log.
ExitCallbackAdvances ==
  [][/\ lastOp' = "complete" =>
          /\ UNCHANGED <<runningTimer, runningTimerStart, isRunning,
                         timerQueue>>
          /\ updateRunLogUI(runLog') # Threw => exitPending' # exitPending
          /\ updateRunLogUI(runLog') = Threw => exitPending' = exitPending
     /\ lastOp' = "exit" =>
          IF timerQueue = <<>>
          THEN runningTimer' = Null /\ ~isRunning'
          ELSE runningTimer' = Head(timerQueue)]_vars

WaitingForExitWitness ==
  /\ lastOp = "complete"
  /\ runningTimer \in exitPending
  /\ isRunning
  /\ Len(timerQueue) > 0
  /\ intervals = {}

\* C15 (as stated): the alert sound and the notification are triggered only
\* by natural completion: a completion calls playSound once with the
\* configured level and the notification exactly when notifications are
\* enabled; no other step calls either.
AlertsOnlyOnCompletion ==
  /\ lastOp = "complete" =>
       /\ effects.level = soundLevel
       /\ effects.sound # NotCalled
       /\ effects.notification # NotCalled <=> notificationsEnabled
  /\ lastOp # "complete" => effects = NoEffects

\* C15 (amended): a completion calls playSound once with the configured level
\* and the notification exactly when enabled; cancel, removal, Clear All and
\* every other timer event call neither; the one other caller of playSound is
\* the sound selector, which plays a test beep at the chosen level unless
\* that level is 'off', and never notifies.
AlertsOnCompletionOrTestBeep ==
  /\ lastOp = "complete" =>
       /\ effects.level = soundLevel
       /\ effects.sound # NotCalled
       /\ effects.notification # NotCalled <=> notificationsEnabled
  /\ lastOp = "soundLevel" =>
       /\ effects.notification = NotCalled
       /\ IF effects.level = NotCalled
          THEN soundLevel = "off"
          ELSE effects.level # "off" /\ soundLevel = setSoundLevel(effects.level)
  /\ lastOp \notin {"complete", "soundLevel"} => effects = NoEffects

\* C15 witness: a completion that played the alert and showed the
\* notification.
AlertedCompletionWitness ==
  /\ lastOp = "complete"
  /\ effects.sound = "played"
  /\ effects.notification = "shown"
  /\ effects.label = Last(runLog).label

\* a side effect of the last handler that failed
AlertFailed ==
  \/ effects.sound \in {"unavailable", "error caught", Threw}
  \/ effects.notification \in {"null", Threw}

\* the running flag is set only while an interval or an exit animation is
\* still to fire
NotStuck == isRunning => intervals # {} \/ exitPending # {}

FailedAlertLogged ==
  /\ lastOp = "complete"
  /\ effects.sound = "error caught"
  /\ effects.notification = "null"
  /\ Last(logMeta).kind = "complete"
  /\ Last(logMeta).block \in exitPending
  /\ timerQueue # <<>>

\* what JSON.parse and new Date(iso) read back from an export
parseExport(records) ==
  [i \in DOMAIN records |->
     [label |-> records[i].label,
      plannedDuration |-> numberFromJSON(records[i].plannedDurationMs),
      actualElapsed |-> numberFromJSON(records[i].actualDurationMs),
      startedAt |-> dateFromISO(records[i].startedAtISO),
      endedAt |-> dateFromISO(records[i].endedAtISO)]]

\* C19: exportRunLogAsJSON leaves the run log unchanged and produces one
\* record per entry, in the order of the log, each with the label, the
\* planned and actual duration and both timestamps of its entry.
ExportIsProjection ==
  [][lastOp' = "export" =>
       /\ runLog' = runLog
       /\ exported'.status = "ok"
       /\ Len(exported'.records) = Len(runLog)
       /\ \A i \in DOMAIN runLog :
            LET record == exported'.records[i]
            IN  /\ record.label = runLog[i].label
                /\ record.plannedDurationMs
                     = numberToJSON(runLog[i].plannedDuration)
                /\ record.actualDurationMs
                     = numberToJSON(runLog[i].actualElapsed)
                /\ runLog[i].startedAt # Null
                /\ record.startedAtISO = toISOString(runLog[i].startedAt)
                /\ record.endedAtISO = toISOString(runLog[i].endedAt)]_vars

\* C20: every export of a reachable run log succeeds, and parsing it gives
\* back the entries of the log, equal one by one in label, planned duration,
\* actual duration, start and end.
ExportRoundTrips ==
  lastOp = "export" =>
    /\ exported.status = "ok"
    /\ parseExport(exported.records) = runLog

\* C21: the run log is append-only: any step other than Clear Log keeps the
\* log as a prefix of the log after it and adds at most one entry at the end;
\* only Clear Log removes entries, and it removes all of them.
RunLogAppendOnly ==
  [][/\ lastOp' # "clearLog" =>
          /\ Len(runLog') \in {Len(runLog), Len(runLog) + 1}
          /\ SubSeq(runLog', 1, Len(runLog)) = runLog
     /\ lastOp' = "clearLog" => runLog' = <<>>]_vars

\* C21 witness: a log of two entries, the second appended behind the first.
SecondEntryAppendedWitness ==
  /\ Len(runLog) = 2
  /\ lastOp \in {"complete", "cancel"}
  /\ runLog[1].endedAt <= runLog[2].endedAt

QueueFunctions ==
  {"addTimerToQueue", "shiftTimerFromQueue", "removeTimerFromQueue",
   "clearTimerQueue"}

\* C22: a call of addTimerToQueue, shiftTimerFromQueue, removeTimerFromQueue
\* or clearTimerQueue changes the queue as the function says and leaves the
\* run log, the running flag, the handle, its start time and the live
\* countdown unchanged; clearing the queue leaves an active timer active.
QueueOpsChangeOnlyQueue ==
  [][(lastOp' = "call" /\ call'.op \in QueueFunctions) =>
       /\ UNCHANGED <<runLog, isRunning, runningTimer, runningTimerStart,
                      intervals, startTime, exitPending>>
       /\ call'.op = "addTimerToQueue" =>
            timerQueue' = Append(timerQueue, call'.input)
       /\ call'.op = "shiftTimerFromQueue" =>
            timerQueue' = SubSeq(timerQueue, 2, Len(timerQueue))
       /\ call'.op = "removeTimerFromQueue" =>
            timerQueue' = SelectSeq(timerQueue, LAMBDA b : b # call'.input)
       /\ call'.op = "clearTimerQueue" => timerQueue' = <<>>]_vars

\* C22 witness: the queue, holding a timer, was cleared while another timer
\* was active, and that timer is still active and counting.
ClearedQueueWhileActiveWitness ==
  /\ lastOp = "call"
  /\ call.op = "clearTimerQueue"
  /\ call.input > 0
  /\ isRunning
  /\ runningTimer # Null
  /\ runningTimer \in intervals
  /\ runningTimerStart = startTime[runningTimer]

\* C23: setSoundLevel returns normally and stores a level of SOUND_LEVELS
\* as given and anything else as 'off', in memory and in the store when the
\* store works; the level in memory is a level of SOUND_LEVELS in every
\* state.
SoundLevelAlwaysRecognized ==
  /\ soundLevel \in SoundLevels
  /\ lastOp = "soundLevel" =>
       /\ call.op = "setSoundLevel"
       /\ call.result \in {"saved", "save failed"}
       /\ soundLevel =
            IF call.input \in SoundLevels THEN call.input ELSE "off"
       /\ call.result = "saved" => localStorage = soundLevel

\* C23 witness: an unknown level was given while 'loud' was stored, and
\* 'off' is what is in memory and in the store now.
UnknownLevelBecomesOffWitness ==
  /\ lastOp = "soundLevel"
  /\ call.input = "bogus"
  /\ call.result = "saved"
  /\ soundLevel = "off"
  /\ localStorage = "off"

\* C24: loadSoundLevel returns normally, with the stored level when that is
\* a level of SOUND_LEVELS and with 'off' when nothing is stored, when what
\* is stored is no level, or when the store throws; setSoundLevel returns
\* normally when the store throws and has updated the level in memory all
\* the same.
PersistenceIsBestEffort ==
  /\ lastOp = "load" =>
       /\ call.op = "loadSoundLevel"
       /\ call.input \in {localStorage, Threw}
       /\ call.result =
            IF call.input \in SoundLevels THEN call.input ELSE "off"
       /\ soundLevel = call.result
  /\ (lastOp = "soundLevel" /\ call.result # "saved") =>
       /\ call.result = "save failed"
       /\ soundLevel =
            IF call.input \in SoundLevels THEN call.input ELSE "off"

\* a state of the saving half of C24: the store failed while 'loud' was
\* chosen: 'loud' is in memory, the store holds something else.
SaveFailedLevelKept ==
  /\ lastOp = "soundLevel"
  /\ call.result = "save failed"
  /\ call.input = "loud"
  /\ soundLevel = "loud"
  /\ localStorage # "loud"

\* C24 witness: the page was loaded while the store held something that is
\* no level, and 'off' came back.
StoredJunkLoadsOffWitness ==
  /\ lastOp = "load"
  /\ call.input = "bogus"
  /\ call.result = "off"

\* C25: the start button pressed while no timer runs, with a queue that is
\* not empty, removes the head from the queue, makes it the active timer
\* with the start time now and a live countdown, sets the running flag, and
\* leaves the rest of the queue and the run log as they were; with an empty
\* queue it changes nothing and the flag stays false.
StartInIdle ==
  [][(lastOp' = "startQueue" /\ ~isRunning) =>
       IF timerQueue # <<>>
       THEN /\ timerQueue' = Tail(timerQueue)
            /\ runningTimer' = Head(timerQueue)
            /\ runningTimerStart' = now
            /\ startTime'[Head(timerQueue)] = now
            /\ Head(timerQueue) \in intervals'
            /\ isRunning'
            /\ runLog' = runLog
       ELSE /\ ~isRunning'
            /\ UNCHANGED <<timerQueue, runningTimer, runningTimerStart,
                           runLog, intervals, startTime>>]_vars

\* C25 witness: the queue was started from idle with two timers queued: the
\* first is active, started now, the second is still queued.
StartedFromIdleWitness ==
  /\ lastOp = "startQueue"
  /\ signal = ""
  /\ isRunning
  /\ runningTimer = 1
  /\ runningTimerStart = now
  /\ timerQueue = <<2>>
  /\ intervals = {1}

\* C26: an interval callback that fires before the end time changes nothing
\* of the controller: queue, run log, running flag, handle, start time and
\* the live countdowns stay as they are, and neither sound nor notification
\* is called.
EarlyTickChangesNothing ==
  [][lastOp' = "tick" =>
       /\ \E block \in intervals : now < startTime[block] + timers[block].duration
       /\ UNCHANGED <<timerQueue, runLog, isRunning, runningTimer,
                      runningTimerStart, intervals, startTime, exitPending,
                      inDOM>>
       /\ effects' = NoEffects]_vars

\* C26 witness: a tick fired one minute into a two minute timer, which is
\* still the active one.
EarlyTickWitness ==
  /\ lastOp = "tick"
  /\ isRunning
  /\ runningTimer # Null
  /\ runningTimer \in intervals
  /\ now = startTime[runningTimer] + ClockStep
  /\ timers[runningTimer].duration = 2 * ClockStep
  /\ runLog = <<>>

\* the number a sequence of digit characters stands for
RECURSIVE NumberOf(_)
NumberOf(chars) ==
  IF chars = <<>> THEN 0
  ELSE 10 * NumberOf(SubSeq(chars, 1, Len(chars) - 1))
       + (CHOOSE d \in 0..9 : DigitChars[d + 1] = chars[Len(chars)])

IsNumeral(chars) ==
  /\ Len(chars) >= 1
  /\ \A i \in DOMAIN chars : \E d \in 1..10 : DigitChars[d] = chars[i]
  /\ Len(chars) > 1 => chars[1] # "0"

\* C27: for ms >= 0 and total = ceil(ms / 1000), formatDuration(ms) is
\* "H:MM:SS" when total >= 3600 and "M:SS" otherwise, hours and minutes
\* without leading zeros in front, the later fields of two digits, and the
\* fields add up to total; 3661000 gives "1:01:01" and 125000 gives "2:05";
\* only 0 gives "0:00"; the call changes no state.
FormatDurationShape ==
  /\ formatDuration(3661000) = <<"1", ":", "0", "1", ":", "0", "1">>
  /\ formatDuration(125000) = <<"2", ":", "0", "5">>
  /\ call.op = "formatDuration" =>
       LET ms == call.input
           text == call.result
           n == Len(text)
           total == IF ms % 1000 = 0 THEN ms \div 1000 ELSE ms \div 1000 + 1
       IN  /\ n >= 4
           /\ text[n - 2] = ":"
           /\ Len(SubSeq(text, n - 1, n)) = 2
           /\ NumberOf(SubSeq(text, n - 1, n)) = total % 60
           /\ IF total >= 3600
              THEN /\ n >= 7
                   /\ text[n - 5] = ":"
                   /\ NumberOf(SubSeq(text, n - 4, n - 3)) = (total \div 60) % 60
                   /\ IsNumeral(SubSeq(text, 1, n - 6))
                   /\ NumberOf(SubSeq(text, 1, n - 6)) = total \div 3600
              ELSE /\ IsNumeral(SubSeq(text, 1, n - 3))
                   /\ NumberOf(SubSeq(text, 1, n - 3)) = total \div 60
           /\ (text = <<"0", ":", "0", "0">>) <=> (ms = 0)
           /\ timerQueue = <<>> /\ runLog = <<>> /\ ~isRunning
           /\ runningTimer = Null /\ soundLevel = "off"

\* C27 witness: half a second short of an hour is shown as the full hour.
HourRoundedUpWitness ==
  /\ call.op = "formatDuration"
  /\ call.input = 3599500
  /\ call.result = <<"1", ":", "0", "0", ":", "0", "0">>

\* C28: once a timer has been cancelled its countdown is gone for good: the
\* block of every cancel entry of the run log has no live interval, so none
\* of its ticks can fire, and no entry of a natural completion of that block
\* follows the cancel entry.
CancelStopsCountdown ==
  \A i \in DOMAIN logMeta :
    logMeta[i].kind = "cancel" =>
      /\ logMeta[i].block \notin intervals
      /\ \A j \in DOMAIN logMeta :
           j > i => ~(/\ logMeta[j].block = logMeta[i].block
                      /\ logMeta[j].kind = "complete")

\* C28 witness: a timer cancelled before its end time; the clock has passed
\* that end time since, and no countdown of the timer is live.
CancelledStaysSilentWitness ==
  /\ logMeta # <<>>
  /\ Last(logMeta).kind = "cancel"
  /\ startTime[Last(logMeta).block] # Null
  /\ Last(runLog).endedAt < endTime(Last(logMeta).block)
  /\ now >= endTime(Last(logMeta).block)
  /\ Last(logMeta).block \notin intervals

\* C29: every entry of the run log has a start time that is not null and is
\* the time at which the timer it describes was started, an end time not
\* before it, and actualElapsed = endedAt - startedAt.
LogEntriesHaveOwnStart ==
  \A i \in DOMAIN runLog :
    /\ runLog[i].startedAt # Null
    /\ runLog[i].startedAt = startTime[logMeta[i].block]
    /\ runLog[i].endedAt >= runLog[i].startedAt
    /\ runLog[i].actualElapsed = runLog[i].endedAt - runLog[i].startedAt

\* C30: no run of a timer has more than one entry in the run log (a block is
\* started at most once, so no two entries describe the same block).
OneEntryPerRun ==
  \A i, j \in DOMAIN logMeta :
    i # j => logMeta[i].block # logMeta[j].block

\* the situations of a block that can be read off the state: waiting in the
\* queue, being the active timer, or having left both
Pending(block) == block \in Range(timerQueue)
Active(block) == runningTimer = block
Left(block) == block < nextBlock /\ ~Pending(block) /\ ~Active(block)

\* C31: no spec is started twice or lost. A block is never pending and
\* active at once; it is started only out of the queue; it leaves the queue
\* only by being started, removed by the user or cleared by Clear All; it
\* stops being the active timer only by a cancel that logs it, by the exit
\* animation callback of its own logged completion, or by Clear All; and
\* once it has left it has no countdown and never comes back.
EachSpecInOneSituation ==
  [][\A block \in Blocks :
       /\ ~(Pending(block) /\ Active(block))
       /\ (block \in intervals' \ intervals) =>
            Pending(block) /\ Active(block)'
       /\ (Pending(block) /\ ~Pending(block)') =>
            \/ Active(block)'
            \/ lastOp' \in {"remove", "clearAll"}
       /\ (Active(block) /\ ~Active(block)') =>
            \/ lastOp' = "clearAll"
            \/ lastOp' = "cancel" /\ Last(logMeta').block = block
            \/ lastOp' = "exit" /\ block \in exitPending \ exitPending'
       /\ Left(block) =>
            /\ Left(block)'
            /\ block \notin intervals
     ]_vars

\* the log holds the natural completion of a block
LoggedComplete(block) ==
  \E i \in DOMAIN logMeta : logMeta[i] = [block |-> block, kind |-> "complete"]

\* C32: with time advancing, ticks and exit callbacks delivered, and no
\* cancel, removal or Clear All, a started queue runs to the end: every
\* spec waiting in the queue of a run is eventually logged as completed, and
\* the run eventually ends Idle with an empty queue, no handle and the
\* running flag false.
StartedQueueRunsToIdle ==
  /\ \A block \in Blocks :
       (isRunning /\ block \in Range(timerQueue)) ~> LoggedComplete(block)
  /\ isRunning ~>
       (~isRunning /\ timerQueue = <<>> /\ runningTimer = Null
          /\ intervals = {} /\ exitPending = {})

\* C32 witness: a run of two timers has ended: both are logged as completed
\* and the system is Idle with an empty queue.
RanTwoToIdleWitness ==
  /\ lastOp = "exit"
  /\ ~isRunning
  /\ timerQueue = <<>>
  /\ runningTimer = Null
  /\ LoggedComplete(1)
  /\ LoggedComplete(2)

\* C33: a spec enqueued during a run is started by that run, with no new
\* press of the start button, when the exit animation callback of a natural
\* completion finds it at the head of the queue; a spec enqueued while Idle
\* is started by the start button only: any step that starts a countdown
\* while the running flag is false is a press of the start button.
EnqueuedSpecStartsWithItsRun ==
  [][/\ (lastOp' = "exit" /\ isRunning /\ Len(timerQueue) > 0) =>
          /\ isRunning'
          /\ runningTimer' = Head(timerQueue)
          /\ Head(timerQueue) \in intervals'
          /\ timerQueue' = Tail(timerQueue)
     /\ \A block \in Blocks :
          (~isRunning /\ block \in intervals' \ intervals) =>
            lastOp' = "startQueue"
    ]_vars

\* C34: the entries of the run log are in the order in which their timers
\* were enqueued and started: of any two entries the earlier one describes
\* the block enqueued earlier, its start time is not later, and its end
\* time is not later than the start time of the later one. (The clock of
\* the model moves in whole steps, so equal times are allowed.)
RunLogInStartOrder ==
  \A i, j \in DOMAIN runLog :
    i < j =>
      /\ logMeta[i].block < logMeta[j].block
      /\ runLog[i].startedAt <= runLog[j].startedAt
      /\ runLog[i].endedAt <= runLog[j].startedAt

TypeOK ==
  /\ Range(timerQueue) \subseteq Blocks
  /\ isRunning \in BOOLEAN
  /\ runningTimer \in Blocks \cup {Null}
  /\ intervals \subseteq Blocks
  /\ exitPending \subseteq Blocks
  /\ Len(logMeta) = Len(runLog)

====
